---- MODULE Spec2Model ----
(***************************************************************************)
(* Product Info App (src/main.py): a Streamlit script with two search      *)
(* modes.  "Google Custom Search" issues one GET per click; "Serper        *)
(* Shopping" issues one POST per click ("Search by Name") or one POST per  *)
(* non-blank row of an uploaded CSV ("Bulk Upload CSV").                   *)
(*                                                                         *)
(* Python strings that the code inspects (strip, lower, truthiness) are    *)
(* sequences of one-character strings; "" is <<>>.  Opaque strings         *)
(* (credentials, JSON field values, widget labels) are TLA+ strings.       *)
(***************************************************************************)
EXTENDS Integers, Sequences, FiniteSets, TLC

VARIABLES GOOGLE_API_KEY, GOOGLE_CSE_ID, SERPER_API_KEY,
          mode, serper_mode, query, product_name, country_code,
          uploaded_file, input_df, idx, all_rows,
          pc, request, response, sent, got, shown

vars == <<GOOGLE_API_KEY, GOOGLE_CSE_ID, SERPER_API_KEY,
          mode, serper_mode, query, product_name, country_code,
          uploaded_file, input_df, idx, all_rows,
          pc, request, response, sent, got, shown>>

env == <<GOOGLE_API_KEY, GOOGLE_CSE_ID, SERPER_API_KEY>>

(***************************************************************************)
(* Bounds of the model and constants of the program.                       *)
(***************************************************************************)
\* longest uploaded table, in data rows
MaxRows == 2
\* how far beyond the cap a shopping list of the client specification goes
MaxExcess == 2
\* shopping_results[:41]
ShoppingCap == 41

(***************************************************************************)
(* Python values.                                                          *)
(***************************************************************************)
\* os.getenv of a variable that is not set
Unset == "<None>"
EnvValues == {Unset, "", "key"}
\* truthiness of an os.getenv result: None and "" are falsy
EnvTruthy(v) == v # Unset /\ v # ""

Space == " "
\* truthiness of a str
StrTruthy(s) == s # <<>>

RECURSIVE LStrip(_)
LStrip(s) == IF s # <<>> /\ Head(s) = Space THEN LStrip(Tail(s)) ELSE s

RECURSIVE RStrip(_)
RStrip(s) ==
    IF s # <<>> /\ s[Len(s)] = Space THEN RStrip(SubSeq(s, 1, Len(s) - 1)) ELSE s

\* str.strip()
Strip(s) == RStrip(LStrip(s))

LowerChar(c) ==
    CASE c = "A" -> "a"
      [] c = "B" -> "b"
      [] c = "G" -> "g"
      [] c = "N" -> "n"
      [] OTHER -> c

\* str.lower()
Lower(s) == [i \in 1..Len(s) |-> LowerChar(s[i])]

\* a pandas cell: a missing value (float NaN) or an object (str)
NaN == [isna |-> TRUE, text |-> <<>>]
Obj(s) == [isna |-> FALSE, text |-> s]
\* str(value): str(float("nan")) is "nan"
PyStr(v) == IF v.isna THEN <<"n", "a", "n">> ELSE v.text

\* list[-n:]
SliceTail(list, n) ==
    SubSeq(list, IF Len(list) < n THEN 1 ELSE Len(list) - n + 1, Len(list))

\* list[:n]
Slice(list, n) == SubSeq(list, 1, IF Len(list) < n THEN Len(list) ELSE n)

(***************************************************************************)
(* HTTP responses of the providers.                                        *)
(***************************************************************************)
\* a shopping item: a JSON object holding some of the nine keys
ItemFull ==
    [title |-> "t", source |-> "s", link |-> "l", price |-> "p", imageUrl |-> "i",
     rating |-> "r", ratingCount |-> "c", productId |-> "d", position |-> "n"]
ItemSparse == [title |-> "t2", link |-> "l2"]
\* an object holding none of the nine keys
ItemEmpty == [sponsored |-> "y"]
ItemKinds == <<ItemFull, ItemSparse, ItemEmpty>>

\* the provider's list of n items, its order fixed by the provider (seed)
ShoppingList(n, seed) == [j \in 1..n |-> ItemKinds[((j + seed) % 3) + 1]]

\* response bodies: text that is not JSON, JSON that is not an object, a JSON
\* object without the provider's key ("shopping", "items"), one whose value
\* under that key is null, one whose value under that key is a list
BodyText == [json |-> "text", value |-> <<>>]
BodyArray == [json |-> "array", value |-> <<>>]
BodyNoKey == [json |-> "nokey", value |-> <<>>]
BodyNull == [json |-> "null", value |-> <<>>]
BodyList(items) == [json |-> "list", value |-> items]

\* requests.get / requests.post raised (connection refused, DNS, ...)
NetworkFailure == [kind |-> "neterr", status_code |-> 0, body |-> BodyText]
Http(code, body) == [kind |-> "http", status_code |-> code, body |-> body]

\* the responses a provider can give to one call, its lists of at most
\* maxItems items
Responses(maxItems) ==
    {NetworkFailure}
        \cup {Http(c, b) : c \in {201, 404, 500},
                            b \in {BodyText, BodyList(<<ItemFull>>)}}
        \cup {Http(200, b) : b \in {BodyText, BodyArray, BodyNoKey, BodyNull}}
        \cup {Http(200, BodyList(ShoppingList(n, s))) : n \in 0..maxItems, s \in 0..2}

\* the responses of an interactive session: a failure to connect, two HTTP
\* errors, a body that is not JSON, an empty list and a list of one item
SessionResponses ==
    {NetworkFailure, Http(404, BodyText), Http(500, BodyText), Http(200, BodyText),
     Http(200, BodyList(<<>>)), Http(200, BodyList(<<ItemFull>>))}

(***************************************************************************)
(* The search clients and the formatter.                                   *)
(***************************************************************************)
\* Python's None, and the f-string of an error: its prefix, the status code
\* and the response text it embeds
None == [none |-> TRUE]
ErrorMessage(prefix, r) ==
    [none |-> FALSE, prefix |-> prefix, status_code |-> r.status_code,
     text |-> r.body.json]
\* truthiness of an error: None is falsy, the f-string is never empty
ErrTruthy(e) == e # None

\* what a call gave its caller: a returned value or a raised exception
Returned(error, results) == [raised |-> FALSE, error |-> error, results |-> results]
Raised == [raised |-> TRUE, error |-> None, results |-> <<>>]

\* response.json() raises on text that is not JSON
JsonRaises(r) == r.body.json = "text"

\* google_custom_search(query, api_key, cx) on the provider's answer r.  The
\* dict it returns for an error holds no result list, and a null "items" is
\* returned as it is: both read as no results
google_custom_search(r) ==
    IF r.kind = "neterr" THEN Raised
    ELSE IF r.status_code # 200
        THEN Returned(ErrorMessage("Google Custom Search API error", r), <<>>)
    ELSE IF JsonRaises(r) \/ r.body.json = "array" THEN Raised
    ELSE Returned(None, r.body.value)

\* search_serper_shopping reading the list of an error response as well
search_serper_shopping_lenient(r) ==
    IF r.kind = "neterr" THEN Raised
    ELSE IF r.status_code # 200
        THEN Returned(ErrorMessage("Serper API error", r),
                      Slice(r.body.value, ShoppingCap))
    ELSE IF JsonRaises(r) \/ r.body.json \in {"array", "null"} THEN Raised
    ELSE Returned(None, Slice(r.body.value, ShoppingCap))

\* search_serper_shopping(query, country) on the provider's answer r
search_serper_shopping(r) ==
    IF r.kind = "neterr" THEN Raised
    ELSE IF r.status_code # 200
        THEN Returned(ErrorMessage("Serper API error", r), <<>>)
    ELSE IF JsonRaises(r) \/ r.body.json \in {"array", "null"} THEN Raised
    ELSE Returned(None, Slice(r.body.value, ShoppingCap))

\* the payload of the POST: {"q": query, "gl": country.lower()}
SerperRequest(q, country, row) ==
    [provider |-> "serper", q |-> q, gl |-> Lower(country), row |-> row]
\* the parameters of the GET: key, cx, q
GoogleRequest(q) == [provider |-> "google", q |-> q, gl |-> <<>>, row |-> 0]
NoRequest == [provider |-> "none", q |-> <<>>, gl |-> <<>>, row |-> 0]

\* the nine indexed columns and the JSON key each is read from
Columns ==
    <<"Title", "Source", "Link", "Price", "ImageURL", "Rating", "RatingCount",
      "ProductId", "Position">>
JsonKeys ==
    <<"title", "source", "link", "price", "imageUrl", "rating", "ratingCount",
      "productId", "position">>
\* r.get(key, "")
Get(r, key) == IF key \in DOMAIN r THEN r[key] ELSE ""

\* format_results_for_csv with enumerate(results) left at its default start of 0
format_results_for_csv_from0(product_title, results, error) ==
    LET row == (<<"Product Title", 0>> :> product_title)
                 @@ (<<"Search Status", 0>> :>
                        IF ErrTruthy(error) THEN "Error" ELSE "Success")
    IN  IF ErrTruthy(error)
        THEN row @@ (<<"Error Message", 0>> :> error)
        ELSE row @@ [k \in {<<Columns[c], i - 1>> : c \in 1..9, i \in 1..Len(results)}
                        |-> LET c == CHOOSE c \in 1..9 : Columns[c] = k[1]
                            IN  Get(results[k[2] + 1], JsonKeys[c])]

\* format_results_for_csv(product_title, results, error): the row as a function
\* from <<column, index>> to the cell, index 0 for the columns without one
format_results_for_csv(product_title, results, error) ==
    LET row == (<<"Product Title", 0>> :> product_title)
                 @@ (<<"Search Status", 0>> :>
                        IF ErrTruthy(error) THEN "Error" ELSE "Success")
    IN  IF ErrTruthy(error)
        THEN row @@ (<<"Error Message", 0>> :> error)
        ELSE row @@ [k \in {<<Columns[c], i>> : c \in 1..9, i \in 1..Len(results)}
                        |-> LET c == CHOOSE c \in 1..9 : Columns[c] = k[1]
                            IN  Get(results[k[2]], JsonKeys[c])]

(***************************************************************************)
(* The uploaded CSV and pandas.                                            *)
(***************************************************************************)
\* the text of a cell of the "Product Title" column and of the "Country" column
TitleCells == {<<>>, <<Space>>, <<Space, "A">>}
CountryCells == {<<>>, <<Space>>, <<"G", "B">>}

Headers ==
    {<<"Product Title", "Country">>, <<"Product Title">>, <<"Name", "Country">>}

CellsOf(column) == IF column = "Country" THEN CountryCells ELSE TitleCells

\* the data lines of a file with the given header, each a tuple of cell texts
LinesOf(header) ==
    IF Len(header) = 1
    THEN {<<t>> : t \in CellsOf(header[1])}
    ELSE {<<t, c>> : t \in CellsOf(header[1]), c \in CellsOf(header[2])}

RECURSIVE SeqsUpTo(_, _)
\* the sequences over S of length at most n
SeqsUpTo(S, n) ==
    IF n = 0 THEN {<<>>}
    ELSE LET shorter == SeqsUpTo(S, n - 1)
         IN  shorter \cup {Append(q, x) : q \in {r \in shorter : Len(r) = n - 1}, x \in S}

CsvFiles ==
    UNION {{[columns |-> h, lines |-> l] : l \in SeqsUpTo(LinesOf(h), MaxRows)}
              : h \in Headers}

NoFile == [columns |-> <<>>, lines |-> <<>>]
NoDf == [columns |-> {}, rows |-> <<>>]

\* among pandas' default na_values: the empty cell and "NA"
NaValues == {<<>>, <<"N", "A">>}

\* skip_blank_lines: a line of whitespace alone holds no delimiter, so only a
\* line of a one-column file can be blank
BlankLine(line) == Len(line) = 1 /\ Strip(line[1]) = <<>>
KeptLine(line) == ~BlankLine(line)

ReadCell(cell) == IF cell \in NaValues THEN NaN ELSE Obj(cell)

\* pd.read_csv(uploaded_file)
read_csv(file) ==
    LET kept == SelectSeq(file.lines, KeptLine)
        col(name) == CHOOSE i \in 1..Len(file.columns) : file.columns[i] = name
    IN  [columns |-> {file.columns[i] : i \in 1..Len(file.columns)},
         rows |-> [n \in 1..Len(kept) |->
                     [name \in {file.columns[i] : i \in 1..Len(file.columns)}
                         |-> ReadCell(kept[n][col(name)])]]]

Us == <<"u", "s">>

\* input_df["Country"] = "us", or input_df["Country"].fillna("us")
DefaultCountry(df) ==
    [columns |-> df.columns \cup {"Country"},
     rows |-> [n \in 1..Len(df.rows) |->
                 [name \in df.columns \cup {"Country"} |->
                     IF name # "Country" THEN df.rows[n][name]
                     ELSE IF "Country" \notin df.columns THEN Obj(Us)
                     ELSE IF df.rows[n][name].isna THEN Obj(Us)
                     ELSE df.rows[n][name]]]]

\* "Product Title" in input_df.columns
HasTitleColumn(df) == "Product Title" \in df.columns

\* the frame the script holds after the upload: st.stop() leaves it as read
LoadFrame(file) ==
    IF HasTitleColumn(read_csv(file)) THEN DefaultCountry(read_csv(file))
    ELSE read_csv(file)

(***************************************************************************)
(* The script.  Streamlit runs it from the top on every interaction; pc is *)
(* where the current run stands: "idle" (ended, nothing searched), "wait"  *)
(* (blocked in requests.get / requests.post), "loop" (between two rows of  *)
(* the bulk loop), "done" (ended after a search), "crashed" (ended by an   *)
(* uncaught exception).  The user's interactions are taken while the       *)
(* script rests; each starts a new run, whose locals start empty.  sent    *)
(* and got are the requests issued and the answers received by the current *)
(* run, request the call in flight.                                        *)
(***************************************************************************)
Modes == {"Google Custom Search", "Serper Shopping"}
SerperModes == {"Search by Name", "Bulk Upload CSV"}
\* what the user types into a text input
Texts == {<<>>, <<Space>>, <<"A">>}
CountryTexts == {Us, <<"G", "B">>, <<>>}

\* if not GOOGLE_API_KEY and not GOOGLE_CSE_ID
GoogleBlockedBoth == ~EnvTruthy(GOOGLE_API_KEY) /\ ~EnvTruthy(GOOGLE_CSE_ID)

\* if not GOOGLE_API_KEY or not GOOGLE_CSE_ID: st.error(...)
GoogleBlocked == ~EnvTruthy(GOOGLE_API_KEY) \/ ~EnvTruthy(GOOGLE_CSE_ID)
\* if not SERPER_API_KEY: st.error(...)
SerperBlocked == ~EnvTruthy(SERPER_API_KEY)

Blocked(m) == IF m = "Google Custom Search" THEN GoogleBlocked ELSE SerperBlocked

\* the script is not running: the user can interact
Resting == pc \in {"idle", "done", "crashed"}

NoOutcome == [raised |-> FALSE, error |-> None, results |-> <<>>]

\* a new run of the script starts with no locals
NewRun ==
    /\ idx' = 0
    /\ all_rows' = <<>>
    /\ request' = NoRequest
    /\ response' = NoOutcome
    /\ sent' = <<>>
    /\ got' = <<>>

\* the widgets of a mode as first rendered
FreshWidgets ==
    /\ serper_mode' = "Search by Name"
    /\ query' = <<>>
    /\ product_name' = <<>>
    /\ country_code' = Us
    /\ uploaded_file' = NoFile
    /\ input_df' = NoDf

Init ==
    /\ GOOGLE_API_KEY \in EnvValues
    /\ GOOGLE_CSE_ID \in EnvValues
    /\ SERPER_API_KEY \in EnvValues
    /\ mode = "Google Custom Search"
    /\ serper_mode = "Search by Name"
    /\ query = <<>>
    /\ product_name = <<>>
    /\ country_code = Us
    /\ uploaded_file = NoFile
    /\ input_df = NoDf
    /\ idx = 0
    /\ all_rows = <<>>
    /\ pc = "idle"
    /\ request = NoRequest
    /\ response = NoOutcome
    /\ sent = <<>>
    /\ got = <<>>
    /\ shown = IF GoogleBlocked THEN "error" ELSE "none"

\* st.sidebar.selectbox("Select Search Mode", ...)
SelectMode(m) ==
    /\ Resting
    /\ m # mode
    /\ mode' = m
    /\ FreshWidgets
    /\ NewRun
    /\ pc' = "idle"
    /\ shown' = IF Blocked(m) THEN "error" ELSE "none"
    /\ UNCHANGED env

\* st.text_input("Enter product name or ASIN ...")
EnterQuery(q) ==
    /\ Resting
    /\ mode = "Google Custom Search"
    /\ ~GoogleBlocked
    /\ q # query
    /\ query' = q
    /\ NewRun
    /\ pc' = "idle"
    /\ shown' = "none"
    /\ UNCHANGED <<env, mode, serper_mode, product_name, country_code,
                   uploaded_file, input_df>>

\* st.button("Search") of the Google mode, up to requests.get
GoogleSearch ==
    /\ Resting
    /\ mode = "Google Custom Search"
    /\ ~GoogleBlocked
    /\ idx' = 0
    /\ all_rows' = <<>>
    /\ response' = NoOutcome
    /\ got' = <<>>
    /\ IF ~StrTruthy(query)
       THEN /\ shown' = "warning"
            /\ pc' = "idle"
            /\ request' = NoRequest
            /\ sent' = <<>>
       ELSE /\ shown' = "spinner"
            /\ pc' = "wait"
            /\ request' = GoogleRequest(query)
            /\ sent' = <<GoogleRequest(query)>>
    /\ UNCHANGED <<env, mode, serper_mode, query, product_name, country_code,
                   uploaded_file, input_df>>

\* what the Google mode shows for its results
GoogleShown(out) ==
    IF ErrTruthy(out.error) THEN "error"
    ELSE IF out.results = <<>> THEN "info"
    ELSE "success"

\* requests.get returns or raises, and the rest of the Google handler
GoogleRespond(r) ==
    /\ pc = "wait"
    /\ request.provider = "google"
    /\ got' = Append(got, r)
    /\ request' = NoRequest
    /\ response' = google_custom_search(r)
    /\ pc' = IF google_custom_search(r).raised THEN "crashed" ELSE "done"
    /\ shown' = IF google_custom_search(r).raised THEN "exception"
                ELSE GoogleShown(google_custom_search(r))
    /\ UNCHANGED <<env, mode, serper_mode, query, product_name, country_code,
                   uploaded_file, input_df, idx, all_rows, sent>>

\* st.radio("Select Serper Search Mode", ...)
SelectSerperMode(sm) ==
    /\ Resting
    /\ mode = "Serper Shopping"
    /\ ~SerperBlocked
    /\ sm # serper_mode
    /\ serper_mode' = sm
    /\ product_name' = <<>>
    /\ country_code' = Us
    /\ uploaded_file' = NoFile
    /\ input_df' = NoDf
    /\ NewRun
    /\ pc' = "idle"
    /\ shown' = "none"
    /\ UNCHANGED <<env, mode, query>>

SingleMode ==
    /\ mode = "Serper Shopping"
    /\ ~SerperBlocked
    /\ serper_mode = "Search by Name"

\* st.text_input("Enter product name to search")
EnterProductName(q) ==
    /\ Resting
    /\ SingleMode
    /\ q # product_name
    /\ product_name' = q
    /\ NewRun
    /\ pc' = "idle"
    /\ shown' = "none"
    /\ UNCHANGED <<env, mode, serper_mode, query, country_code, uploaded_file,
                   input_df>>

\* st.text_input("Enter country code (default: us)", value="us")
EnterCountryCode(c) ==
    /\ Resting
    /\ SingleMode
    /\ c # country_code
    /\ country_code' = c
    /\ NewRun
    /\ pc' = "idle"
    /\ shown' = "none"
    /\ UNCHANGED <<env, mode, serper_mode, query, product_name, uploaded_file,
                   input_df>>

\* st.button("Search") of "Search by Name", up to requests.post
SerperSearch ==
    /\ Resting
    /\ SingleMode
    /\ idx' = 0
    /\ all_rows' = <<>>
    /\ response' = NoOutcome
    /\ got' = <<>>
    /\ IF ~StrTruthy(product_name)
       THEN /\ shown' = "warning"
            /\ pc' = "idle"
            /\ request' = NoRequest
            /\ sent' = <<>>
       ELSE /\ shown' = "spinner"
            /\ pc' = "wait"
            /\ request' = SerperRequest(product_name, country_code, 0)
            /\ sent' = <<SerperRequest(product_name, country_code, 0)>>
    /\ UNCHANGED <<env, mode, serper_mode, query, product_name, country_code,
                   uploaded_file, input_df>>

\* requests.post returns or raises, and the rest of the "Search by Name" handler
SerperRespond(r) ==
    /\ pc = "wait"
    /\ request.provider = "serper"
    /\ serper_mode = "Search by Name"
    /\ got' = Append(got, r)
    /\ request' = NoRequest
    /\ response' = search_serper_shopping(r)
    /\ pc' = IF search_serper_shopping(r).raised THEN "crashed" ELSE "done"
    /\ shown' = IF search_serper_shopping(r).raised THEN "exception"
                ELSE IF ErrTruthy(search_serper_shopping(r).error) THEN "error"
                ELSE "success"
    /\ UNCHANGED <<env, mode, serper_mode, query, product_name, country_code,
                   uploaded_file, input_df, idx, all_rows, sent>>

BulkMode ==
    /\ mode = "Serper Shopping"
    /\ ~SerperBlocked
    /\ serper_mode = "Bulk Upload CSV"

\* st.file_uploader(...) receives a file: the script reads it, checks its
\* columns and defaults the country
Upload ==
    /\ Resting
    /\ BulkMode
    /\ uploaded_file = NoFile
    /\ \E f \in CsvFiles :
          /\ uploaded_file' = f
          /\ input_df' = LoadFrame(f)
          /\ shown' = IF HasTitleColumn(read_csv(f)) THEN "none" ELSE "error"
    /\ NewRun
    /\ pc' = "idle"
    /\ UNCHANGED <<env, mode, serper_mode, query, product_name, country_code>>

\* the user clears the uploader: if uploaded_file: is false
RemoveFile ==
    /\ Resting
    /\ BulkMode
    /\ uploaded_file # NoFile
    /\ uploaded_file' = NoFile
    /\ input_df' = NoDf
    /\ NewRun
    /\ pc' = "idle"
    /\ shown' = "none"
    /\ UNCHANGED <<env, mode, serper_mode, query, product_name, country_code>>

\* st.button("Run Bulk Search"): rendered once a file with the column is there
RunBulkSearch ==
    /\ Resting
    /\ BulkMode
    /\ uploaded_file # NoFile
    /\ HasTitleColumn(input_df)
    /\ idx' = 1
    /\ all_rows' = <<>>
    /\ request' = NoRequest
    /\ response' = NoOutcome
    /\ sent' = <<>>
    /\ got' = <<>>
    /\ pc' = "loop"
    /\ shown' = "none"
    /\ UNCHANGED <<env, mode, serper_mode, query, product_name, country_code,
                   uploaded_file, input_df>>

\* str(row["Product Title"]).strip()
ProductTitle(row) == Strip(PyStr(row["Product Title"]))
\* str(row["Country"]).strip().lower()
Country(row) == Lower(Strip(PyStr(row["Country"])))
\* if not product_title: continue
Skipped(row) == ~StrTruthy(ProductTitle(row))

\* one iteration of the loop, up to requests.post
BulkRow ==
    /\ pc = "loop"
    /\ idx <= Len(input_df.rows)
    /\ IF Skipped(input_df.rows[idx])
       THEN /\ idx' = idx + 1
            /\ UNCHANGED <<pc, request, sent, shown>>
       ELSE /\ pc' = "wait"
            /\ request' = SerperRequest(ProductTitle(input_df.rows[idx]),
                                        Country(input_df.rows[idx]), idx)
            /\ sent' = Append(sent, request')
            /\ shown' = "spinner"
            /\ UNCHANGED idx
    /\ UNCHANGED <<env, mode, serper_mode, query, product_name, country_code,
                   uploaded_file, input_df, all_rows, response, got>>

\* every response formatted as a success
FormattedRowNoError(product_title, out) ==
    format_results_for_csv(product_title, out.results, None)

\* the row a response becomes: format_results_for_csv(product_title, [],
\* error=response["error"]) or format_results_for_csv(product_title,
\* response["results"])
FormattedRow(product_title, out) ==
    IF ErrTruthy(out.error)
    THEN format_results_for_csv(product_title, <<>>, out.error)
    ELSE format_results_for_csv(product_title, out.results, None)

\* requests.post returns or raises, and the rest of the iteration
BulkRespond(r) ==
    /\ pc = "wait"
    /\ request.provider = "serper"
    /\ serper_mode = "Bulk Upload CSV"
    /\ got' = Append(got, r)
    /\ request' = NoRequest
    /\ response' = search_serper_shopping(r)
    /\ IF search_serper_shopping(r).raised
       THEN /\ pc' = "crashed"
            /\ shown' = "exception"
            /\ UNCHANGED <<idx, all_rows>>
       ELSE /\ pc' = "loop"
            /\ shown' = "none"
            /\ all_rows' = Append(all_rows,
                                  FormattedRow(request.q, search_serper_shopping(r)))
            /\ idx' = idx + 1
    /\ UNCHANGED <<env, mode, serper_mode, query, product_name, country_code,
                   uploaded_file, input_df, sent>>

\* the loop ends: if all_rows: ... st.success("Bulk search completed.")
BulkComplete ==
    /\ pc = "loop"
    /\ idx > Len(input_df.rows)
    /\ pc' = "done"
    /\ shown' = IF all_rows # <<>> THEN "success" ELSE "none"
    /\ UNCHANGED <<env, mode, serper_mode, query, product_name, country_code,
                   uploaded_file, input_df, idx, all_rows, request, response,
                   sent, got>>

Next ==
    \/ \E m \in Modes : SelectMode(m)
    \/ \E q \in Texts : EnterQuery(q)
    \/ GoogleSearch
    \/ \E r \in SessionResponses : GoogleRespond(r)
    \/ \E sm \in SerperModes : SelectSerperMode(sm)
    \/ \E q \in Texts : EnterProductName(q)
    \/ \E c \in CountryTexts : EnterCountryCode(c)
    \/ SerperSearch
    \/ \E r \in SessionResponses : SerperRespond(r)
    \/ Upload
    \/ RemoveFile
    \/ RunBulkSearch
    \/ BulkRow
    \/ \E r \in SessionResponses : BulkRespond(r)
    \/ BulkComplete

Spec == Init /\ [][Next]_vars

(***************************************************************************)
(* The client and the formatter on their own: one call of either, on       *)
(* every response and on every argument list up to MaxExcess items beyond  *)
(* the cap.  got holds the response given to the client, response what the *)
(* client returned or the error and results given to the formatter,        *)
(* product_name the formatter's product_title, all_rows the row it made.   *)
(***************************************************************************)
WideResponses == Responses(ShoppingCap + MaxExcess)
WideLists == {ShoppingList(n, s) : n \in 0..(ShoppingCap + MaxExcess), s \in 0..2}
Errors == {None, ErrorMessage("Serper API error", Http(404, BodyText))}

InitFn ==
    /\ GOOGLE_API_KEY = "key"
    /\ GOOGLE_CSE_ID = "key"
    /\ SERPER_API_KEY = "key"
    /\ mode = "Serper Shopping"
    /\ serper_mode = "Bulk Upload CSV"
    /\ query = <<>>
    /\ product_name = <<>>
    /\ country_code = Us
    /\ uploaded_file = NoFile
    /\ input_df = NoDf
    /\ idx = 0
    /\ all_rows = <<>>
    /\ pc = "idle"
    /\ request = NoRequest
    /\ response = NoOutcome
    /\ sent = <<>>
    /\ got = <<>>
    /\ shown = "none"

\* response = search_serper_shopping(product_title, country)
ClientCall(r) ==
    /\ pc = "idle"
    /\ pc' = "client"
    /\ got' = <<r>>
    /\ response' = search_serper_shopping(r)
    /\ UNCHANGED <<env, mode, serper_mode, query, product_name, country_code,
                   uploaded_file, input_df, idx, all_rows, request, sent, shown>>

\* formatted_row = format_results_for_csv(product_title, results, error)
FormatCall(t, results, error) ==
    /\ pc = "idle"
    /\ pc' = "formatter"
    /\ product_name' = t
    /\ response' = Returned(error, results)
    /\ all_rows' = <<format_results_for_csv(t, results, error)>>
    /\ UNCHANGED <<env, mode, serper_mode, query, country_code, uploaded_file,
                   input_df, idx, request, sent, got, shown>>

NextFn ==
    \/ \E r \in WideResponses : ClientCall(r)
    \/ \E t \in Texts, l \in WideLists, e \in Errors : FormatCall(t, l, e)

FnSpec == InitFn /\ [][NextFn]_vars

(***************************************************************************)
(* Properties.                                                             *)
(***************************************************************************)
ProductTitleKey == <<"Product Title", 0>>
SearchStatusKey == <<"Search Status", 0>>
ErrorMessageKey == <<"Error Message", 0>>

\* a bulk run has started and not been replaced by another script run
InBulkRun == BulkMode /\ idx >= 1

\* the indices, in order, of the first n rows of the frame that the loop queries
QueriedRows(n) ==
    SelectSeq([i \in 1..n |-> i], LAMBDA i : StrTruthy(ProductTitle(input_df.rows[i])))

\* the rows of the frame the loop has passed
Passed == idx - 1

CellText(n, column) ==
    LET i == CHOOSE i \in 1..Len(uploaded_file.columns) : uploaded_file.columns[i] = column
    IN  uploaded_file.lines[n][i]

HasColumn(column) ==
    \E i \in 1..Len(uploaded_file.columns) : uploaded_file.columns[i] = column

\* C2: skip rule.  A finished bulk run has made one provider call and one
\* report row per line of the uploaded table whose Product Title cell is
\* non-empty after trimming, and none for a line whose cell is blank.
C2_SkipRule ==
    (InBulkRun /\ pc = "done") =>
        LET nonblank == {n \in 1..Len(uploaded_file.lines) :
                            Strip(CellText(n, "Product Title")) # <<>>}
        IN  /\ Len(sent) = Cardinality(nonblank)
            /\ Len(all_rows) = Cardinality(nonblank)

\* C3: locale.  Every call of a bulk run carries the locale "us" when the
\* table has no Country column or the row's Country cell is blank, and the
\* cell's text lower-cased otherwise; the locale is never the empty string.
C3_Locale ==
    InBulkRun =>
        \A k \in 1..Len(sent) :
            /\ sent[k].gl # <<>>
            /\ ~HasColumn("Country") => sent[k].gl = Us
            /\ HasColumn("Country") =>
                  sent[k].gl =
                      IF Strip(CellText(sent[k].row, "Country")) = <<>> THEN Us
                      ELSE Lower(Strip(CellText(sent[k].row, "Country")))

\* the nine indexed columns and the key of a result each shows
NineFields ==
    {<<"Title", "title">>, <<"Source", "source">>, <<"Link", "link">>,
     <<"Price", "price">>, <<"ImageURL", "imageUrl">>, <<"Rating", "rating">>,
     <<"RatingCount", "ratingCount">>, <<"ProductId", "productId">>,
     <<"Position", "position">>}

\* C4: row shape.  A row formatted from an error holds the product title, the
\* status "Error" and the error message and nothing else; a row formatted
\* from k results, k at most 41, holds the product title, the status
\* "Success", no error message, and for each index 1..k and no other the nine
\* indexed fields, each the value of its key in the result at that index or
\* "" when the result lacks the key.
C4_RowShape ==
    pc = "formatter" =>
        LET row == all_rows[1]
            results == response.results
        IN  /\ row[ProductTitleKey] = product_name
            /\ response.error # None =>
                  /\ DOMAIN row = {ProductTitleKey, SearchStatusKey, ErrorMessageKey}
                  /\ row[SearchStatusKey] = "Error"
                  /\ row[ErrorMessageKey] = response.error
            /\ (response.error = None /\ Len(results) <= ShoppingCap) =>
                  /\ DOMAIN row =
                        {ProductTitleKey, SearchStatusKey}
                            \cup {<<f[1], i>> : f \in NineFields, i \in 1..Len(results)}
                  /\ row[SearchStatusKey] = "Success"
                  /\ \A f \in NineFields, i \in 1..Len(results) :
                        row[<<f[1], i>>] =
                            IF f[2] \in DOMAIN results[i] THEN results[i][f[2]] ELSE ""

\* C4 witness: a row formatted from 41 results, the second of which lacks
\* its price
C4_Witness ==
    /\ pc = "formatter"
    /\ response.error = None
    /\ Len(response.results) = ShoppingCap
    /\ "price" \notin DOMAIN response.results[2]
    /\ all_rows[1][<<"Price", 2>>] = ""
    /\ all_rows[1][<<"Title", 41>>] = "t2"
    /\ <<"Title", 42>> \notin DOMAIN all_rows[1]

\* C5: truncation.  From a 200 response whose shopping list has n items the
\* client returns min(n, 41) results, the i-th of them the provider's i-th.
C5_Truncation ==
    (pc = "client" /\ got[1].kind = "http" /\ got[1].status_code = 200
        /\ got[1].body.json = "list") =>
        LET n == Len(got[1].body.value)
        IN  /\ ~response.raised
            /\ response.error = None
            /\ Len(response.results) = IF n < ShoppingCap THEN n ELSE ShoppingCap
            /\ \A i \in 1..Len(response.results) :
                  response.results[i] = got[1].body.value[i]

\* C5 witness: a list longer than 41 items came in and 41 results came out
C5_Witness ==
    /\ pc = "client"
    /\ got[1].status_code = 200
    /\ got[1].body.json = "list"
    /\ Len(got[1].body.value) > ShoppingCap
    /\ Len(response.results) = ShoppingCap

\* C6: outcome exclusivity.  Whatever the status and the body, an outcome the
\* client returns holds an error and no results, or no error and a list of
\* results; never an error together with results.
C6_Exclusive ==
    (pc = "client" /\ ~response.raised) =>
        /\ ~(response.error # None /\ response.results # <<>>)
        /\ response.error # None <=> got[1].status_code # 200

\* C6 witness: an error status whose body holds a list of items gave an
\* outcome with an error
C6_Witness ==
    /\ pc = "client"
    /\ ~response.raised
    /\ got[1].status_code = 404
    /\ got[1].body.json = "list"
    /\ got[1].body.value # <<>>
    /\ response.error # None

\* the last call ended in a network failure or a status outside 200..299
TransportError ==
    /\ got # <<>>
    /\ \/ got[Len(got)].kind = "neterr"
       \/ got[Len(got)].status_code \notin 200..299

\* C7: transport errors become error outcomes.  When a provider call ends in
\* a network failure or a non-2xx status, the client returns an outcome with
\* an error and no results instead of raising, and a bulk run records it as
\* the row of that call.
C7_TransportErrors ==
    TransportError =>
        /\ ~response.raised
        /\ response.error # None
        /\ response.results = <<>>
        /\ InBulkRun =>
              /\ Len(all_rows) = Len(got)
              /\ all_rows[Len(got)][SearchStatusKey] = "Error"

\* C8: gating.  A provider call is issued only with the credentials of the
\* selected mode present and, in a bulk run, only for a table that holds the
\* Product Title column; with a credential of the selected mode missing or
\* the column missing, an error is shown and no call is made.
C8_Gating ==
    /\ (request.provider = "google" \/ (sent # <<>> /\ mode = "Google Custom Search")) =>
          EnvTruthy(GOOGLE_API_KEY) /\ EnvTruthy(GOOGLE_CSE_ID)
    /\ (request.provider = "serper" \/ (sent # <<>> /\ mode = "Serper Shopping")) =>
          /\ EnvTruthy(SERPER_API_KEY)
          /\ serper_mode = "Bulk Upload CSV" => HasColumn("Product Title")
    /\ (mode = "Google Custom Search"
          /\ (~EnvTruthy(GOOGLE_API_KEY) \/ ~EnvTruthy(GOOGLE_CSE_ID))) =>
          shown = "error" /\ sent = <<>> /\ request = NoRequest
    /\ (mode = "Serper Shopping" /\ ~EnvTruthy(SERPER_API_KEY)) =>
          shown = "error" /\ sent = <<>> /\ request = NoRequest
    /\ (serper_mode = "Bulk Upload CSV" /\ uploaded_file # NoFile
          /\ ~HasColumn("Product Title")) =>
          shown = "error" /\ sent = <<>> /\ request = NoRequest

\* C8 witness: a call of a bulk run is in flight while the web-search key is
\* missing
C8_Witness ==
    /\ request.provider = "serper"
    /\ serper_mode = "Bulk Upload CSV"
    /\ GOOGLE_API_KEY = Unset
    /\ pc = "wait"

\* C9: run to completion.  A bulk run whose calls were all answered (with a
\* success, an error status or a body that is not the expected JSON) never
\* stops with rows of the table unprocessed, and holds at most one call in
\* flight.
C9_RunToCompletion ==
    (InBulkRun /\ \A k \in 1..Len(got) : got[k].kind = "http") =>
        /\ Resting => Passed = Len(input_df.rows)
        /\ Len(sent) <= Len(got) + 1

\* C10: empty queries of the single-query modes.  A call issued by the Search
\* button of either mode carries a query that is non-empty after trimming.
C10_EmptyQuery ==
    (mode = "Google Custom Search" \/ serper_mode = "Search by Name") =>
        \A k \in 1..Len(sent) : Strip(sent[k].q) # <<>>

====
